---- MODULE Spec2Model ----
(***************************************************************************)
(* The filesystem-backed object store of abstutil (io_native.rs): the two  *)
(* serialization formats chosen by file suffix, the directory listing and  *)
(* bulk load, the progress-tracked reader and delete_file.                 *)
(*                                                                         *)
(* A file name is a sequence of one-character strings, so that the suffix, *)
(* prefix and stem computations of the code are computed and not assumed.  *)
(* A file's content is a sequence of bytes (0..255).  The serialized type  *)
(* T is Vec<u8>: a value is a sequence of bytes.                           *)
(***************************************************************************)
EXTENDS Integers, Sequences, FiniteSets, TLC

\* ------------------------------------------------------------------ bounds

\* Longest value (number of bytes of a Vec<u8>) written by write_json/write_binary.
MaxLen == 2

\* Most entries the directory holds when a listing or a bulk load starts.
MaxFiles == 3

\* Most bytes an external process appends to a file that a reader has open.
MaxGrow == 2

\* Most times the caller invokes the callback handed back by FileWithProgress::new.
MaxRedeem == 2

\* ------------------------------------------------------------ file names

\* A byte of a file name that is not valid UTF-8 (an OsString can hold one).
BadByte == "<FF>"

\* U+FFFD, which to_string_lossy puts in the place of an invalid byte.
Replacement == "<U+FFFD>"

DotJson == <<".", "j", "s", "o", "n">>
DotBin == <<".", "b", "i", "n">>

\* The byte value of a character (String's Ord compares bytes).
CharCode(c) ==
  CASE c = "." -> 46
    [] c = "a" -> 97
    [] c = "b" -> 98
    [] c = "c" -> 99
    [] c = "d" -> 100
    [] c = "i" -> 105
    [] c = "j" -> 106
    [] c = "n" -> 110
    [] c = "o" -> 111
    [] c = "s" -> 115
    [] c = "t" -> 116
    [] c = "x" -> 120
    [] c = Replacement -> 239
    [] OTHER -> 255

\* str::ends_with
EndsWith(s, suffix) ==
  /\ Len(s) >= Len(suffix)
  /\ SubSeq(s, Len(s) - Len(suffix) + 1, Len(s)) = suffix

\* str::starts_with('.')
StartsWithDot(s) == Len(s) >= 1 /\ s[1] = "."

\* OsStr::to_string_lossy: every invalid byte becomes U+FFFD.
ToStringLossy(name) ==
  [i \in 1..Len(name) |-> IF name[i] = BadByte THEN Replacement ELSE name[i]]

\* OsString::into_string succeeds only on valid Unicode.
IsValidUnicode(s) == \A i \in 1..Len(s) : s[i] # BadByte

\* Path::file_stem of a one-component path: the whole name when it holds no
\* '.', or only a leading one; otherwise the part before the last '.'.
FileStem(name) ==
  LET dots == {i \in 2..Len(name) : name[i] = "."}
  IN IF dots = {} THEN name
     ELSE SubSeq(name, 1, (CHOOSE i \in dots : \A j \in dots : j <= i) - 1)

\* Ord for String: lexicographic on bytes, a proper prefix first.
RECURSIVE StringLess(_, _)
StringLess(s, t) ==
  IF t = <<>> THEN FALSE
  ELSE IF s = <<>> THEN TRUE
  ELSE IF CharCode(Head(s)) # CharCode(Head(t))
       THEN CharCode(Head(s)) < CharCode(Head(t))
  ELSE StringLess(Tail(s), Tail(t))

\* A collect that yields the greatest element first.
RECURSIVE SetIntoIterDescending(_)
SetIntoIterDescending(S) ==
  IF S = {} THEN <<>>
  ELSE LET m == CHOOSE x \in S : \A y \in S \ {x} : StringLess(y, x)
       IN <<m>> \o SetIntoIterDescending(S \ {m})

\* BTreeSet<String>::into_iter().collect(): the elements in increasing order.
RECURSIVE SetIntoIter(_)
SetIntoIter(S) ==
  IF S = {} THEN <<>>
  ELSE LET m == CHOOSE x \in S : \A y \in S \ {x} : StringLess(x, y)
       IN <<m>> \o SetIntoIter(S \ {m})

\* BTreeMap<String, T>::into_iter().collect(): (key, value) pairs by increasing key.
MapIntoIter(tree) ==
  LET keys == SetIntoIter(DOMAIN tree)
  IN [i \in 1..Len(keys) |-> <<keys[i], tree[keys[i]]>>]

\* An insert that keeps the value a key already has.
MapInsertKeepsFirst(tree, k, x) ==
  [key \in DOMAIN tree \cup {k} |-> IF key \in DOMAIN tree THEN tree[key] ELSE x]

\* BTreeMap::insert: a later insert under the same key replaces the value.
MapInsert(tree, k, x) ==
  [key \in DOMAIN tree \cup {k} |-> IF key = k THEN x ELSE tree[key]]

EmptyMap == [key \in {} |-> <<>>]

\* ------------------------------------------------------------ the formats

Byte == 0..255

\* Result<T, Error>
Ok(x) == [ok |-> TRUE, val |-> x]
Err(e) == [ok |-> FALSE, err |-> e]

\* The i-th byte (from 0) of n as a little-endian u64; n is below 2^24 here.
LeByte(n, i) ==
  CASE i = 0 -> n % 256
    [] i = 1 -> (n \div 256) % 256
    [] i = 2 -> (n \div 65536) % 256
    [] OTHER -> 0

\* bincode::serialize_into for a Vec<u8>: the length as a little-endian u64,
\* then the bytes.
BincodeSerialize(v) == [i \in 1..8 |-> LeByte(Len(v), i - 1)] \o v

\* bincode::deserialize_from for a Vec<u8>: reads the 8-byte length, then that
\* many bytes; a short read is an error, bytes after the value are not read.
BincodeDeserialize(b) ==
  IF Len(b) < 8 THEN Err("decode")
  ELSE IF \E i \in 4..8 : b[i] # 0 THEN Err("decode")
  ELSE LET n == b[1] + 256 * b[2] + 65536 * b[3]
       IN IF Len(b) < 8 + n THEN Err("decode")
          ELSE Ok(SubSeq(b, 9, 8 + n))

\* The decimal digits of a byte, as ASCII codes.
Digits(n) ==
  IF n >= 100 THEN <<48 + (n \div 100), 48 + ((n \div 10) % 10), 48 + (n % 10)>>
  ELSE IF n >= 10 THEN <<48 + (n \div 10), 48 + (n % 10)>>
  ELSE <<48 + n>>

RECURSIVE PrettyElems(_)
PrettyElems(v) ==
  IF Len(v) = 1 THEN <<10, 32, 32>> \o Digits(v[1])
  ELSE <<10, 32, 32>> \o Digits(v[1]) \o <<44>> \o PrettyElems(Tail(v))

\* to_json (serde_json::to_string_pretty) for a Vec<u8>, as bytes: "[]" when
\* empty, else one element per line, indented by two spaces.
ToJson(v) ==
  IF v = <<>> THEN <<91, 93>>
  ELSE <<91>> \o PrettyElems(v) \o <<10, 93>>

IsWs(c) == c \in {32, 10, 9, 13}
IsDigit(c) == c \in 48..57

\* The first index from i on that holds no whitespace (Len(b) + 1 when none).
RECURSIVE SkipWs(_, _)
SkipWs(b, i) ==
  IF i <= Len(b) /\ IsWs(b[i]) THEN SkipWs(b, i + 1) ELSE i

\* The first index from i on that holds no digit.
RECURSIVE SkipDigits(_, _)
SkipDigits(b, i) ==
  IF i <= Len(b) /\ IsDigit(b[i]) THEN SkipDigits(b, i + 1) ELSE i

\* The number written by the digits b[i..j-1], at most three of them.
NumberAt(b, i, j) ==
  CASE j - i = 1 -> b[i] - 48
    [] j - i = 2 -> 10 * (b[i] - 48) + (b[i + 1] - 48)
    [] OTHER -> 100 * (b[i] - 48) + 10 * (b[i + 1] - 48) + (b[i + 2] - 48)

\* The elements of a JSON array from index i (the start of an element) on.
RECURSIVE ParseElems(_, _, _)
ParseElems(b, i, acc) ==
  LET j == SkipDigits(b, i)
      k == SkipWs(b, j)
  IN IF j = i \/ j - i > 3 THEN Err("decode")
     ELSE IF j - i > 1 /\ b[i] = 48 THEN Err("decode")
     ELSE IF NumberAt(b, i, j) > 255 THEN Err("decode")
     ELSE IF k > Len(b) THEN Err("decode")
     ELSE IF b[k] = 44
          THEN ParseElems(b, SkipWs(b, k + 1), Append(acc, NumberAt(b, i, j)))
     ELSE IF b[k] = 93
          THEN IF SkipWs(b, k + 1) = Len(b) + 1
               THEN Ok(Append(acc, NumberAt(b, i, j)))
               ELSE Err("decode")
     ELSE Err("decode")

\* serde_json::from_slice for a Vec<u8>: an array of numbers 0..255, whitespace
\* allowed around the tokens, nothing but whitespace after the array.
FromJson(b) ==
  LET i == SkipWs(b, 1)
  IN IF i > Len(b) \/ b[i] # 91 THEN Err("decode")
     ELSE LET j == SkipWs(b, i + 1)
          IN IF j > Len(b) THEN Err("decode")
             ELSE IF b[j] = 93
                  THEN IF SkipWs(b, j + 1) = Len(b) + 1 THEN Ok(<<>>)
                       ELSE Err("decode")
             ELSE ParseElems(b, j, <<>>)

\* ------------------------------------------------------------------ state

VARIABLES
  dirState,  \* the directory's path: "dir", "missing", or "notdir" (a regular file)
  fs,        \* the directory's files: name -> content (bytes)
  written,   \* history: name -> the value the last write_* stored under it
  pc,        \* "idle", "loading" (inside load_all_objects) or "panicked"
  last,      \* the last operation: what was called, what it returned and printed
  prev,      \* the single-object operation before it, in brief
  ld,        \* load_all_objects' locals while it runs
  rd,        \* the FileWithProgress the caller holds
  token,     \* the callback handed back by FileWithProgress::new
  timer,     \* the number of results added to the Timer
  now        \* the clock (Instant::now()), in tenths of a second

vars == <<dirState, fs, written, pc, last, prev, ld, rd, token, timer, now>>

\* The file names of the model.
NameAJson == <<"a", ".", "j", "s", "o", "n">>
NameABin == <<"a", ".", "b", "i", "n">>
NameBJson == <<"b", ".", "j", "s", "o", "n">>
NameAbBin == <<"a", "b", ".", "b", "i", "n">>
NameTxt == <<"c", ".", "t", "x", "t">>
NameHiddenJson == <<".", "c", ".", "j", "s", "o", "n">>
NameHiddenTmp == <<".", "d", ".", "t", "x", "t">>
NameBadBin == <<BadByte, ".", "b", "i", "n">>

NoName == <<>>
NoValue == <<>>
Unit == <<>>

\* What an operation left behind: its name and arguments, the Result it
\* returned, the lines it printed, and the panic that ended it, if any.
Returned(op, path, val, res, out) ==
  [op |-> op, path |-> path, val |-> val, res |-> res, out |-> out,
   panic |-> "none"]

Panicked(op, path, val, msg) ==
  [op |-> op, path |-> path, val |-> val, res |-> Err("panic"), out |-> <<>>,
   panic |-> msg]

Brief(ev) == [op |-> ev.op, path |-> ev.path, out |-> ev.out]

NoEvent == Returned("none", NoName, NoValue, Ok(Unit), <<>>)

\* An operation that has not returned yet.
Running(op) ==
  [op |-> op, path |-> NoName, val |-> NoValue, res |-> Err("running"),
   out |-> <<>>, panic |-> "none"]

\* load_all_objects' locals: the entries read_dir has yet to yield, the tree,
\* of the entries visited, those a "Couldn't load" line was printed for, and
\* for each stem the entry with that stem that read_dir yielded last.
NoLoad ==
  [pending |-> {}, tree |-> EmptyMap, visited |-> {}, logged |-> {},
   latest |-> EmptyMap]
NoReader == [open |-> FALSE, path |-> NoName, processed_bytes |-> 0,
             total_bytes |-> 0, started_at |-> 0, last_printed_at |-> 0]

\* The callback of FileWithProgress::new: whether the caller holds one, and
\* how many times the caller has run it.
NoToken == [live |-> FALSE, uses |-> 0]

\* Remove a name from a map.
Without(f, name) == [n \in DOMAIN f \ {name} |-> f[n]]

\* ------------------------------------------------- single-object operations

\* A write whose last byte never reaches the file (a buffer not flushed).
CreateAndWriteUnflushed(path, bytes) ==
  /\ dirState' = "dir"
  /\ fs' = MapInsert(fs, path, SubSeq(bytes, 1, Len(bytes) - 1))

\* std::fs::create_dir_all(parent) followed by File::create(path) and the
\* write of the payload: the directory exists afterwards and the file holds
\* exactly the payload.
CreateAndWrite(path, bytes) ==
  /\ dirState' = "dir"
  /\ fs' = MapInsert(fs, path, bytes)

\* A write_json that picks the format by the suffix instead of insisting on
\* .json.
WriteJsonBySuffix(path, v) ==
  /\ pc = "idle"
  /\ prev' = Brief(last)
  /\ UNCHANGED <<ld, rd, token, timer, now>>
  /\ IF dirState = "notdir"
     THEN /\ pc' = "panicked"
          /\ last' = Panicked("write_json", path, v, "Creating parent dir failed")
          /\ UNCHANGED <<dirState, fs, written>>
     ELSE /\ dirState' = "dir"
          /\ fs' = MapInsert(fs, path, IF EndsWith(path, DotBin)
                                       THEN BincodeSerialize(v) ELSE ToJson(v))
          /\ written' = MapInsert(written, path, v)
          /\ pc' = "idle"
          /\ last' = Returned("write_json", path, v, Ok(Unit), <<"Wrote">>)

\* write_json(path, obj): maybe_write_json, a panic on its error, "Wrote".
WriteJson(path, v) ==
  /\ pc = "idle"
  /\ prev' = Brief(last)
  /\ UNCHANGED <<ld, rd, token, timer, now>>
  /\ IF ~EndsWith(path, DotJson)
     THEN /\ pc' = "panicked"
          /\ last' = Panicked("write_json", path, v, "needs .json")
          /\ UNCHANGED <<dirState, fs, written>>
     ELSE IF dirState = "notdir"
     THEN /\ pc' = "panicked"
          /\ last' = Panicked("write_json", path, v, "Creating parent dir failed")
          /\ UNCHANGED <<dirState, fs, written>>
     ELSE /\ CreateAndWrite(path, ToJson(v))
          /\ written' = MapInsert(written, path, v)
          /\ pc' = "idle"
          /\ last' = Returned("write_json", path, v, Ok(Unit), <<"Wrote">>)

\* write_binary(path, obj): maybe_write_binary, a panic on its error, "Wrote".
WriteBinary(path, v) ==
  /\ pc = "idle"
  /\ prev' = Brief(last)
  /\ UNCHANGED <<ld, rd, token, timer, now>>
  /\ IF ~EndsWith(path, DotBin)
     THEN /\ pc' = "panicked"
          /\ last' = Panicked("write_binary", path, v, "needs .bin")
          /\ UNCHANGED <<dirState, fs, written>>
     ELSE IF dirState = "notdir"
     THEN /\ pc' = "panicked"
          /\ last' = Panicked("write_binary", path, v, "Creating parent dir failed")
          /\ UNCHANGED <<dirState, fs, written>>
     ELSE /\ CreateAndWrite(path, BincodeSerialize(v))
          /\ written' = MapInsert(written, path, v)
          /\ pc' = "idle"
          /\ last' = Returned("write_binary", path, v, Ok(Unit), <<"Wrote">>)

\* slurp_file: the file's bytes, or the error of File::open.
SlurpFile(files, path) ==
  IF path \in DOMAIN files THEN Ok(files[path]) ELSE Err("io")

\* The Result of maybe_read_binary on a path that ends with .bin:
\* timer.read_file(&path)? opens the file, bincode::deserialize_from(timer)
\* decodes what streams out of it.
ReadBinaryResult(files, path) ==
  IF path \notin DOMAIN files THEN Err("io")
  ELSE BincodeDeserialize(files[path])

\* The Result of maybe_read_json on a path that ends with .json: slurp_file,
\* then serde_json::from_slice.
ReadJsonResult(files, path) ==
  IF ~SlurpFile(files, path).ok THEN Err("io")
  ELSE FromJson(SlurpFile(files, path).val)

\* maybe_read_binary(path, timer)
MaybeReadBinary(path) ==
  /\ pc = "idle"
  /\ prev' = Brief(last)
  /\ UNCHANGED <<dirState, fs, written, ld, rd, token, timer, now>>
  /\ IF ~EndsWith(path, DotBin)
     THEN /\ pc' = "panicked"
          /\ last' = Panicked("maybe_read_binary", path, NoValue, "needs .bin")
     ELSE /\ pc' = "idle"
          /\ last' = Returned("maybe_read_binary", path, NoValue,
                              ReadBinaryResult(fs, path), <<>>)

\* maybe_read_json(path, timer)
MaybeReadJson(path) ==
  /\ pc = "idle"
  /\ prev' = Brief(last)
  /\ UNCHANGED <<dirState, fs, written, ld, rd, token, timer, now>>
  /\ IF ~EndsWith(path, DotJson)
     THEN /\ pc' = "panicked"
          /\ last' = Panicked("maybe_read_json", path, NoValue, "needs .json")
     ELSE /\ pc' = "idle"
          /\ last' = Returned("maybe_read_json", path, NoValue,
                              ReadJsonResult(fs, path), <<>>)

\* A delete_file that unwraps remove_file's error.
DeleteFileUnwrap(path) ==
  /\ pc = "idle"
  /\ prev' = Brief(last)
  /\ UNCHANGED <<dirState, ld, rd, token, timer, now>>
  /\ IF path \in DOMAIN fs
     THEN /\ pc' = "idle"
          /\ fs' = Without(fs, path)
          /\ written' = Without(written, path)
          /\ last' = Returned("delete_file", path, NoValue, Ok(Unit), <<"Deleted">>)
     ELSE /\ pc' = "panicked"
          /\ UNCHANGED <<fs, written>>
          /\ last' = Panicked("delete_file", path, NoValue, "remove_file.unwrap")

\* delete_file(path): "Deleted" when remove_file succeeds, else "doesn't
\* exist, so not deleting it".
DeleteFile(path) ==
  /\ pc = "idle"
  /\ prev' = Brief(last)
  /\ pc' = "idle"
  /\ UNCHANGED <<dirState, ld, rd, token, timer, now>>
  /\ IF path \in DOMAIN fs
     THEN /\ fs' = Without(fs, path)
          /\ written' = Without(written, path)
          /\ last' = Returned("delete_file", path, NoValue, Ok(Unit), <<"Deleted">>)
     ELSE /\ UNCHANGED <<fs, written>>
          /\ last' = Returned("delete_file", path, NoValue, Ok(Unit),
                              <<"doesn't exist, so not deleting it">>)

\* The values written and the paths used by the single-object operations.
ByteVals == {0, 255}
Values == UNION {[1..n -> ByteVals] : n \in 0..MaxLen} \cup {<<42>>}
IOPaths == {NameABin, NameAJson, NameTxt}

InitIO ==
  /\ dirState \in {"dir", "missing", "notdir"}
  /\ fs = EmptyMap
  /\ written = EmptyMap
  /\ pc = "idle"
  /\ last = NoEvent
  /\ prev = Brief(NoEvent)
  /\ ld = NoLoad
  /\ rd = NoReader
  /\ token = NoToken
  /\ timer = 0
  /\ now = 0

NextIO ==
  \/ \E p \in IOPaths, v \in Values : WriteJson(p, v)
  \/ \E p \in IOPaths, v \in Values : WriteBinary(p, v)
  \/ \E p \in IOPaths : MaybeReadBinary(p)
  \/ \E p \in IOPaths : MaybeReadJson(p)
  \/ \E p \in IOPaths : DeleteFile(p)

SpecIO == InitIO /\ [][NextIO]_vars

\* The last operation returned to its caller.
LastReturned(op) == last.op = op /\ last.panic = "none" /\ last.res.ok

\* C1: a value written by write_binary to a path ending in .bin is what
\* maybe_read_binary returns for that path, and a value written by write_json to
\* a path ending in .json is what maybe_read_json returns for it, as long as the
\* file is the one that write left.
C1_RoundTrip ==
  /\ (last.op = "maybe_read_binary" /\ EndsWith(last.path, DotBin)
        /\ last.path \in DOMAIN written)
       => /\ last.panic = "none"
          /\ last.res = Ok(written[last.path])
  /\ (last.op = "maybe_read_json" /\ EndsWith(last.path, DotJson)
        /\ last.path \in DOMAIN written)
       => /\ last.panic = "none"
          /\ last.res = Ok(written[last.path])

\* A value of the greatest length has been written in the text format, read
\* back from the binary file and then from the text file.
C1_Witness ==
  /\ LastReturned("maybe_read_json")
  /\ last.path \in DOMAIN written
  /\ Len(written[last.path]) = MaxLen
  /\ last.res.val = written[last.path]
  /\ prev.op = "maybe_read_binary"
  /\ prev.path \in DOMAIN written
  /\ written[prev.path] # <<>>
  /\ BincodeDeserialize(fs[prev.path]) = Ok(written[prev.path])

\* A write_json or write_binary whose path does not end with the suffix of its
\* format.
MismatchedWrite(ev) ==
  \/ ev.op = "write_json" /\ ~EndsWith(ev.path, DotJson)
  \/ ev.op = "write_binary" /\ ~EndsWith(ev.path, DotBin)

\* C6: every write_json on a path that does not end with .json and every
\* write_binary on a path that does not end with .bin panics with the suffix
\* message, for every value, and leaves the directory and its files as they
\* were.
C6_MismatchIsFatal ==
  [][MismatchedWrite(last')
       => /\ pc' = "panicked"
          /\ last'.panic = (IF last'.op = "write_json" THEN "needs .json" ELSE "needs .bin")
          /\ fs' = fs
          /\ dirState' = dirState]_vars

\* write_json was called with a path ending in .bin and a non-empty value,
\* in a directory that held a binary file, and panicked.
C6_Witness ==
  /\ pc = "panicked"
  /\ last.op = "write_json"
  /\ last.path = NameABin
  /\ last.val # <<>>
  /\ last.panic = "needs .json"
  /\ NameABin \in DOMAIN fs

Deleted == <<"Deleted">>
NotDeleting == <<"doesn't exist, so not deleting it">>

\* C8: delete_file never panics; on a file that exists it removes that file
\* and prints "Deleted", on a path that names no file it changes nothing and
\* prints the other line; so the second of two calls in succession on one
\* path prints the "doesn't exist" line.
C8_DeleteIdempotent ==
  /\ [](last.op = "delete_file"
          => /\ pc = "idle"
             /\ last.panic = "none"
             /\ last.path \notin DOMAIN fs
             /\ last.out \in {Deleted, NotDeleting}
             /\ (prev.op = "delete_file" /\ prev.path = last.path)
                  => last.out = NotDeleting)
  /\ [][last'.op = "delete_file"
          => IF last'.path \in DOMAIN fs
             THEN fs' = Without(fs, last'.path) /\ last'.out = Deleted
             ELSE fs' = fs /\ last'.out = NotDeleting]_vars

\* delete_file removed a file and was called again on the same path.
C8_Witness ==
  /\ last.op = "delete_file"
  /\ prev.op = "delete_file"
  /\ prev.path = last.path
  /\ prev.out = Deleted
  /\ last.out = NotDeleting

\* ------------------------------------------------------ the directory store

\* The permutations of a set, as sequences: the orders in which read_dir may
\* yield the entries.
RECURSIVE Orders(_)
Orders(S) ==
  IF S = {} THEN {<<>>}
  ELSE UNION {{<<x>> \o o : o \in Orders(S \ {x})} : x \in S}

\* Loops that skip no entry.
IsHiddenNever(filename) == FALSE

\* The test both loops skip an entry on: its name begins with '.'.
IsHidden(filename) == StartsWithDot(ToStringLossy(filename))

\* A read_dir whose NotFound error is handled like any other error.
ReadDirNotFoundIsError ==
  CASE dirState = "dir" -> "Ok"
    [] OTHER -> "OtherError"

\* What std::fs::read_dir(dir) gives: the iterator, the NotFound error, or
\* another error (here: the path is not a directory).
ReadDir ==
  CASE dirState = "dir" -> "Ok"
    [] dirState = "missing" -> "NotFound"
    [] OTHER -> "OtherError"

\* One step of list_all_objects' loop over the entries order[i..], the
\* faultAt-th of which read_dir yields as an Err: the set built, or the panic.
RECURSIVE ListLoop(_, _, _, _)
ListLoop(order, i, faultAt, results) ==
  IF i > Len(order) THEN [panic |-> "none", results |-> results]
  ELSE IF i = faultAt THEN [panic |-> "entry.unwrap", results |-> results]
  ELSE IF IsHidden(order[i])
       THEN ListLoop(order, i + 1, faultAt, results)
  ELSE IF ~IsValidUnicode(FileStem(order[i]))
       THEN [panic |-> "into_string.unwrap", results |-> results]
  ELSE ListLoop(order, i + 1, faultAt, results \cup {FileStem(order[i])})

\* list_all_objects(dir), read_dir yielding the entries in `order`.
ListAllObjects(order, faultAt) ==
  /\ pc = "idle"
  /\ UNCHANGED <<dirState, fs, written, prev, ld, rd, token, timer, now>>
  /\ CASE ReadDir = "NotFound" ->
            /\ pc' = "idle"
            /\ last' = Returned("list_all_objects", NoName, NoValue,
                                Ok(SetIntoIter({})), <<>>)
       [] ReadDir = "OtherError" ->
            /\ pc' = "panicked"
            /\ last' = Panicked("list_all_objects", NoName, NoValue, "read_dir")
       [] OTHER ->
            LET r == ListLoop(order, 1, faultAt, {})
            IN IF r.panic # "none"
               THEN /\ pc' = "panicked"
                    /\ last' = Panicked("list_all_objects", NoName, NoValue, r.panic)
               ELSE /\ pc' = "idle"
                    /\ last' = Returned("list_all_objects", NoName, NoValue,
                                        Ok(SetIntoIter(r.results)), <<>>)

\* The return of load_all_objects: tree.into_iter().collect().
LoadReturn(tree) ==
  Returned("load_all_objects", NoName, NoValue, Ok(MapIntoIter(tree)), <<>>)

\* load_all_objects(dir) up to its loop: the Timer and the empty tree are
\* made and read_dir is called.  With no entry to visit the call returns.
LoadStart ==
  /\ pc = "idle"
  /\ UNCHANGED <<dirState, fs, written, prev, rd, token, timer, now>>
  /\ CASE ReadDir = "NotFound" ->
            /\ pc' = "idle"
            /\ ld' = NoLoad
            /\ last' = LoadReturn(EmptyMap)
       [] ReadDir = "OtherError" ->
            /\ pc' = "panicked"
            /\ ld' = NoLoad
            /\ last' = Panicked("load_all_objects", NoName, NoValue, "read_dir")
       [] OTHER ->
            /\ ld' = [NoLoad EXCEPT !.pending = DOMAIN fs]
            /\ IF DOMAIN fs = {}
               THEN /\ pc' = "idle"
                    /\ last' = LoadReturn(EmptyMap)
               ELSE /\ pc' = "loading"
                    /\ last' = Running("load_all_objects")

\* maybe_load for an entry with a recognized suffix.
MaybeLoad(files, filename) ==
  IF EndsWith(ToStringLossy(filename), DotJson)
  THEN ReadJsonResult(files, filename)
  ELSE ReadBinaryResult(files, filename)

\* An iteration that takes every file that is not .json for a binary one.
EntryPanicNoElse(filename, entryOk) ==
  IF ~entryOk THEN "entry.unwrap"
  ELSE IF IsHidden(filename) THEN "none"
  ELSE IF ~IsValidUnicode(FileStem(filename)) THEN "into_string.unwrap"
  ELSE "none"

\* The panic, if any, of one iteration of load_all_objects' loop.
EntryPanic(filename, entryOk) ==
  IF ~entryOk THEN "entry.unwrap"
  ELSE IF IsHidden(filename) THEN "none"
  ELSE IF ~IsValidUnicode(FileStem(filename)) THEN "into_string.unwrap"
  ELSE IF ~EndsWith(ToStringLossy(filename), DotJson)
          /\ ~EndsWith(ToStringLossy(filename), DotBin)
       THEN "Don't know what"
  ELSE "none"

\* The tree after one iteration that does not panic.
TreeAfter(tree, files, filename) ==
  IF IsHidden(filename) THEN tree
  ELSE IF MaybeLoad(files, filename).ok
       THEN MapInsert(tree, FileStem(filename), MaybeLoad(files, filename).val)
  ELSE tree

\* An iteration that prints "Couldn't load ..." for a file it could open
\* only.
LogsFailureDecodeOnly(files, filename) ==
  /\ ~IsHidden(filename)
  /\ filename \in DOMAIN files
  /\ ~MaybeLoad(files, filename).ok

\* Whether one iteration prints "Couldn't load ...".
LogsFailure(files, filename) ==
  /\ ~IsHidden(filename)
  /\ ~MaybeLoad(files, filename).ok

\* One iteration of load_all_objects' loop, on the entry read_dir yields next
\* (any of those left; as an Err when ~entryOk), and the return after the
\* last one.
LoadEntry(filename, entryOk) ==
  /\ pc = "loading"
  /\ filename \in ld.pending
  /\ UNCHANGED <<dirState, fs, written, prev, rd, token, timer, now>>
  /\ IF EntryPanic(filename, entryOk) # "none"
     THEN /\ pc' = "panicked"
          /\ ld' = ld
          /\ last' = Panicked("load_all_objects", filename, NoValue,
                              EntryPanic(filename, entryOk))
     ELSE /\ ld' = [pending |-> ld.pending \ {filename},
                    tree |-> TreeAfter(ld.tree, fs, filename),
                    visited |-> ld.visited \cup {filename},
                    logged |-> IF LogsFailure(fs, filename)
                               THEN ld.logged \cup {filename} ELSE ld.logged,
                    latest |-> [k \in DOMAIN ld.latest \cup {FileStem(filename)} |->
                                 IF k = FileStem(filename) THEN filename
                                 ELSE ld.latest[k]]]
          /\ IF ld.pending = {filename}
             THEN /\ pc' = "idle"
                  /\ last' = LoadReturn(TreeAfter(ld.tree, fs, filename))
             ELSE /\ pc' = "loading"
                  /\ last' = last

\* Another process removes a file of the directory while load_all_objects
\* runs (between two calls, what it leaves is a directory the initial states
\* already hold).
ExtDelete(filename) ==
  /\ pc = "loading"
  /\ filename \in DOMAIN fs
  /\ fs' = Without(fs, filename)
  /\ written' = Without(written, filename)
  /\ UNCHANGED <<dirState, pc, last, prev, ld, rd, token, timer, now>>

\* The directories a listing or a load may find.
V1 == <<42>>
V2 == <<0, 255>>
Garbage == <<91, 52>>
StoreNames ==
  {NameAJson, NameABin, NameBJson, NameAbBin, NameTxt, NameHiddenJson,
   NameHiddenTmp, NameBadBin}

StoreContents(name) ==
  IF name \in {NameAJson, NameBJson} THEN {ToJson(V1), ToJson(V2), Garbage}
  ELSE IF name \in {NameABin, NameAbBin}
       THEN {BincodeSerialize(V1), BincodeSerialize(V2), Garbage}
  ELSE IF name = NameHiddenJson THEN {ToJson(V1)}
  ELSE IF name = NameBadBin THEN {BincodeSerialize(V1)}
  ELSE {Garbage}

StoreDirs ==
  UNION {
    {f \in [S -> UNION {StoreContents(n) : n \in S}] :
       \A n \in S : f[n] \in StoreContents(n)} :
    S \in {T \in SUBSET StoreNames : Cardinality(T) <= MaxFiles}}

InitStore ==
  /\ dirState \in {"dir", "missing", "notdir"}
  /\ fs \in StoreDirs
  /\ dirState # "dir" => fs = EmptyMap
  /\ written = EmptyMap
  /\ pc = "idle"
  /\ last = NoEvent
  /\ prev = Brief(NoEvent)
  /\ ld = NoLoad
  /\ rd = NoReader
  /\ token = NoToken
  /\ timer = 0
  /\ now = 0

NextStore ==
  \/ \E order \in Orders(DOMAIN fs), faultAt \in 0..Cardinality(DOMAIN fs) :
       ListAllObjects(order, faultAt)
  \/ LoadStart
  \/ \E filename \in StoreNames, entryOk \in BOOLEAN : LoadEntry(filename, entryOk)
  \/ \E filename \in StoreNames : ExtDelete(filename)

SpecStore == InitStore /\ [][NextStore]_vars

\* ------------------------------------------------- the progress-tracked reader

\* PROGRESS_FREQUENCY_SECONDS (0.2 s), in tenths of a second.
PROGRESS_FREQUENCY_SECONDS == 2

\* Most ticks of the clock in one run.
MaxTime == 3

\* The longest file a reader is opened on.
LongContent == <<1, 2, 3>>

\* FileWithProgress::new(path): the open file with its length from the
\* metadata, and the callback; or the error of File::open.
FileWithProgressNew(path) ==
  /\ pc = "idle"
  /\ ~rd.open
  /\ ~token.live
  /\ UNCHANGED <<dirState, fs, written, prev, ld, timer, now, pc>>
  /\ IF path \notin DOMAIN fs
     THEN /\ last' = Returned("FileWithProgress::new", path, NoValue, Err("io"), <<>>)
          /\ UNCHANGED <<rd, token>>
     ELSE /\ rd' = [open |-> TRUE, path |-> path, processed_bytes |-> 0,
                    total_bytes |-> Len(fs[path]), started_at |-> now,
                    last_printed_at |-> now]
          /\ token' = [live |-> TRUE, uses |-> 0]
          /\ last' = Returned("FileWithProgress::new", path, NoValue, Ok(Unit), <<>>)

\* The numbers of bytes self.inner.read(buf) may return: none at the end of
\* the file or into an empty buffer, else at least one and at most what the
\* buffer takes and the file holds past the bytes already read.
InnerRead(buflen) ==
  LET avail == Len(fs[rd.path]) - rd.processed_bytes
      most == IF buflen < avail THEN buflen ELSE avail
  IN IF most <= 0 THEN {0} ELSE 1..most

\* Whether read prints a status line: the throttle, or the end of the stream.
Done(processed, total, bytes) == processed = total /\ bytes = 0

\* A read that prints on the throttle alone, not at the end of the stream.
PrintsStatusThrottleOnly(processed, total, bytes) ==
  now - rd.last_printed_at >= PROGRESS_FREQUENCY_SECONDS

PrintsStatus(processed, total, bytes) ==
  \/ now - rd.last_printed_at >= PROGRESS_FREQUENCY_SECONDS
  \/ Done(processed, total, bytes)

\* A read without the check of the processed count against the total.
OverrunUnchecked(processed, total) == FALSE

\* Whether read panics after adding `bytes` to the processed count.
Overrun(processed, total) == processed > total

\* <FileWithProgress as Read>::read(buf), inner.read returning `bytes` bytes.
FileWithProgressRead(buflen, bytes) ==
  /\ pc = "idle"
  /\ rd.open
  /\ bytes \in InnerRead(buflen)
  /\ UNCHANGED <<dirState, fs, written, prev, ld, token, timer, now>>
  /\ LET processed == rd.processed_bytes + bytes
         data == SubSeq(fs[rd.path], rd.processed_bytes + 1, processed)
     IN IF Overrun(processed, rd.total_bytes)
        THEN /\ pc' = "panicked"
             /\ rd' = [rd EXCEPT !.processed_bytes = processed]
             /\ last' = Panicked("read", rd.path, NoValue, "too many bytes read")
        ELSE /\ pc' = "idle"
             /\ rd' = [rd EXCEPT !.processed_bytes = processed,
                                 !.last_printed_at =
                                   IF PrintsStatus(processed, rd.total_bytes, bytes)
                                   THEN now ELSE @]
             /\ last' = Returned("read", rd.path, NoValue, Ok(data),
                           IF ~PrintsStatus(processed, rd.total_bytes, bytes) THEN <<>>
                           ELSE IF Done(processed, rd.total_bytes, bytes)
                                THEN <<"Read">> ELSE <<"Reading">>)

\* The caller runs the callback: timer.add_result(elapsed, "Reading ...").
\* The callback is a Box<dyn Fn>: running it does not use it up.
RunCallback ==
  /\ pc = "idle"
  /\ token.live
  /\ timer < MaxRedeem
  /\ timer' = timer + 1
  /\ token' = [token EXCEPT !.uses = @ + 1]
  /\ last' = Returned("callback", rd.path, NoValue, Ok(Unit), <<>>)
  /\ UNCHANGED <<dirState, fs, written, prev, ld, rd, now, pc>>

\* The caller drops the reader and the callback; nothing runs on drop.
DropReader ==
  /\ pc = "idle"
  /\ rd.open
  /\ rd' = NoReader
  /\ token' = [token EXCEPT !.live = FALSE]
  /\ last' = Returned("drop", rd.path, NoValue, Ok(Unit), <<>>)
  /\ UNCHANGED <<dirState, fs, written, prev, ld, timer, now, pc>>

\* Another process appends a byte to the file the reader has open.
ExtAppend(byte) ==
  /\ pc = "idle"
  /\ rd.open
  /\ Len(fs[rd.path]) < Len(LongContent) + MaxGrow
  /\ fs' = [fs EXCEPT ![rd.path] = Append(@, byte)]
  /\ UNCHANGED <<dirState, written, pc, last, prev, ld, rd, token, timer, now>>

\* Time passes.
Tick ==
  /\ pc = "idle"
  /\ now < MaxTime
  /\ now' = now + 1
  /\ UNCHANGED <<dirState, fs, written, pc, last, prev, ld, rd, token, timer>>

\* The files a reader is opened on, and the buffers it reads into.
ReaderContents == {<<>>, V2, LongContent}
BufLens == {0, 1, 4}

InitReader ==
  /\ dirState = "dir"
  /\ fs \in {EmptyMap} \cup {[n \in {NameABin} |-> c] : c \in ReaderContents}
  /\ written = EmptyMap
  /\ pc = "idle"
  /\ last = NoEvent
  /\ prev = Brief(NoEvent)
  /\ ld = NoLoad
  /\ rd = NoReader
  /\ token = NoToken
  /\ timer = 0
  /\ now = 0

NextReader ==
  \/ FileWithProgressNew(NameABin)
  \/ \E buflen \in BufLens, bytes \in 0..4 : FileWithProgressRead(buflen, bytes)
  \/ RunCallback
  \/ DropReader
  \/ ExtAppend(7)
  \/ Tick

SpecReader == InitReader /\ [][NextReader]_vars

\* C7: after every read that returns, the processed count is at most the
\* total taken from the metadata at construction and the bytes handed back lie
\* within that total; a read that takes the count past the total (the file
\* grew) panics and hands nothing back.
C7_NoOverrun ==
  /\ (rd.open /\ pc # "panicked") => rd.processed_bytes <= rd.total_bytes
  /\ LastReturned("read")
       => /\ rd.processed_bytes <= rd.total_bytes
          /\ Len(last.res.val) <= rd.processed_bytes
          /\ last.res.val = SubSeq(fs[rd.path],
                                   rd.processed_bytes - Len(last.res.val) + 1,
                                   rd.processed_bytes)
  /\ rd.processed_bytes > rd.total_bytes
       => /\ pc = "panicked"
          /\ last.op = "read"
          /\ last.panic = "too many bytes read"
          /\ ~last.res.ok

\* A non-empty file grew after the reader was made, and the read that crossed
\* the total panicked.
C7_Witness ==
  /\ pc = "panicked"
  /\ last.op = "read"
  /\ last.panic = "too many bytes read"
  /\ rd.total_bytes > 0
  /\ Len(fs[rd.path]) > rd.total_bytes
  /\ rd.processed_bytes > rd.total_bytes

\* C10: the callback that FileWithProgress::new hands back is run at most once,
\* so one reader adds at most one result to the Timer.
C10_SingleUse == token.uses <= 1

\* C10, the part the code keeps: the Timer gets a result only when the caller
\* runs the callback; new, read and drop add none.
C10_OnlyTheCaller ==
  [][timer' # timer => (last'.op = "callback" /\ token.live /\ timer' = timer + 1)]_vars

\* A step in which a read call on the open reader returns.
ReadReturns ==
  /\ rd.open
  /\ last'.op = "read"
  /\ last'.panic = "none"
  /\ now' = now
  /\ fs' = fs

\* Of the call that returns in this step: the time since the last status line
\* when it was made, whether it saw the end of the stream, and what it did.
ElapsedAtCall == now - rd.last_printed_at
SawTheEnd ==
  /\ rd'.processed_bytes = rd.total_bytes
  /\ rd'.processed_bytes = rd.processed_bytes
Emits == last'.out # <<>>
ReadBehaves(due) ==
  /\ Emits => (due \/ SawTheEnd)
  /\ ~(due \/ SawTheEnd) => (~Emits /\ rd'.last_printed_at = rd.last_printed_at)
  /\ SawTheEnd => (last'.out = <<"Read">> /\ rd'.last_printed_at = now)

\* C11: a read call prints a status line only if the time since the last
\* printed status exceeds the interval or the call saw the end of the stream
\* (processed = total and no byte returned); a call that meets neither prints
\* nothing and leaves last_printed_at alone; a call that saw the end always
\* prints the final status.
C11_ThrottleExceeds ==
  [][ReadReturns => ReadBehaves(ElapsedAtCall > PROGRESS_FREQUENCY_SECONDS)]_vars

\* C11 as the code has it: the same, a status line being due once the time
\* since the last one is at least the interval.
C11_ThrottleAtLeast ==
  [][ReadReturns => ReadBehaves(ElapsedAtCall >= PROGRESS_FREQUENCY_SECONDS)]_vars

\* A read in the middle of the file printed the running status exactly one
\* interval after the reader was made.
C11_Witness ==
  /\ last.op = "read"
  /\ last.out = <<"Reading">>
  /\ rd.open
  /\ rd.processed_bytes < rd.total_bytes
  /\ rd.last_printed_at = now
  /\ now - rd.started_at = PROGRESS_FREQUENCY_SECONDS

\* ---- the claims about list_all_objects and load_all_objects

\* The entries read_dir handed to the running or the last load_all_objects.
Entries == ld.pending \cup ld.visited

\* A name begins with '.', taking an invalid byte for the character it is
\* shown as.
Dotted(name) == name # <<>> /\ name[1] = "."

\* The name ends with .json or .bin.
Recognized(name) ==
  \/ EndsWith(ToStringLossy(name), DotJson)
  \/ EndsWith(ToStringLossy(name), DotBin)

\* The keys of a returned collection, and the keys as a set.
KeysOf(pairs) == [i \in 1..Len(pairs) |-> pairs[i][1]]
KeySet(keys) == {keys[i] : i \in 1..Len(keys)}

\* The entries of the last load that were decoded and put into the tree.
Loaded == {e \in ld.visited : ~Dotted(e) /\ e \notin ld.logged}

\* What a file of the directory decodes to, by its suffix.
Decoded(name) ==
  IF EndsWith(name, DotJson) THEN FromJson(fs[name]) ELSE BincodeDeserialize(fs[name])

\* What a load that returned has done: every entry was visited, the keys are
\* exactly the stems of the entries whose read and decode succeeded, each
\* under a value decoded from such an entry, and a "Couldn't load" line was
\* printed for exactly the non-hidden entries whose read or decode failed.
ReturnsTheLoadable ==
  LastReturned("load_all_objects")
       => /\ ld.pending = {}
          /\ KeySet(KeysOf(last.res.val)) = {FileStem(e) : e \in Loaded}
          /\ \A i \in 1..Len(last.res.val) :
               \E e \in Loaded :
                 /\ FileStem(e) = last.res.val[i][1]
                 /\ e \in DOMAIN fs => Decoded(e) = Ok(last.res.val[i][2])
          /\ ld.logged \subseteq {e \in ld.visited : ~Dotted(e)}
          /\ \A e \in ld.visited \cap DOMAIN fs :
               ~Dotted(e) => (e \in ld.logged <=> ~Decoded(e).ok)

\* C2: over a directory that read_dir enumerates without an error and whose
\* non-hidden entries all end with .json or .bin, load_all_objects does not
\* panic; and when it returns, the keys are exactly the stems of the entries
\* whose read and decode succeeded, every failed entry having been logged and
\* skipped and the entries after it visited.
C2_IsolatesFailures ==
  /\ (last.op = "load_all_objects" /\ dirState = "dir"
        /\ \A e \in Entries : Dotted(e) \/ Recognized(e))
       => (pc = "panicked" => last.panic = "entry.unwrap")
  /\ ReturnsTheLoadable

\* C2, on the directories where the code keeps it: a load panics only on an
\* enumeration error, on a non-hidden entry that ends with neither .json nor
\* .bin, or on a non-hidden entry whose stem is not valid Unicode; and a load
\* that returns has loaded what could be loaded.
C2_ValidNames ==
  /\ (last.op = "load_all_objects" /\ pc = "panicked" /\ dirState = "dir")
       => \/ last.panic = "entry.unwrap"
          \/ \E e \in Entries :
               ~Dotted(e) /\ (~Recognized(e) \/ ~IsValidUnicode(FileStem(e)))
  /\ ReturnsTheLoadable

\* s is before t in the order of String: at the first index where they
\* differ s has the smaller byte, or s is a proper prefix of t.
Before(s, t) ==
  \E i \in 1..(Len(t)) :
    /\ \A j \in 1..(i - 1) : j <= Len(s) /\ s[j] = t[j]
    /\ \/ i = Len(s) + 1
       \/ i <= Len(s) /\ CharCode(s[i]) < CharCode(t[i])

StrictlyIncreasing(keys) ==
  \A i \in 1..(Len(keys) - 1) : Before(keys[i], keys[i + 1])

\* C3: the keys list_all_objects returns and the keys of the pairs
\* load_all_objects returns are in strictly increasing order of String, in
\* whatever order read_dir yields the entries.
C3_KeysSorted ==
  /\ LastReturned("list_all_objects") => StrictlyIncreasing(last.res.val)
  /\ LastReturned("load_all_objects") => StrictlyIncreasing(KeysOf(last.res.val))

\* A load returned three keys, one of them a proper prefix of another.
C3_Witness ==
  /\ LastReturned("load_all_objects")
  /\ KeysOf(last.res.val) = <<FileStem(NameABin), FileStem(NameAbBin), FileStem(NameBJson)>>

\* C4: no key of a listing or of a load begins with '.', and each is the stem
\* of a non-hidden entry; load_all_objects prints no "Couldn't load" for a
\* hidden entry, visits it without reading it, and never panics on one.
C4_HiddenInvisible ==
  /\ LastReturned("list_all_objects")
       => \A k \in KeySet(last.res.val) :
            ~Dotted(k) /\ \E e \in DOMAIN fs : ~Dotted(e) /\ FileStem(e) = k
  /\ LastReturned("load_all_objects")
       => \A k \in KeySet(KeysOf(last.res.val)) :
            ~Dotted(k) /\ \E e \in ld.visited : ~Dotted(e) /\ FileStem(e) = k
  /\ \A e \in ld.logged : ~Dotted(e)
  /\ \A k \in DOMAIN ld.tree : ~Dotted(k)
  /\ (last.op = "load_all_objects" /\ pc = "panicked"
        /\ last.panic \notin {"entry.unwrap", "read_dir"})
       => ~Dotted(last.path)

\* A load returned a key from a directory that also holds a hidden .json file
\* and a hidden file with another suffix.
C4_Witness ==
  /\ LastReturned("load_all_objects")
  /\ {NameHiddenJson, NameHiddenTmp} \subseteq ld.visited
  /\ Len(last.res.val) = 1

\* C5: when the directory does not exist, list_all_objects and load_all_objects
\* return the empty sequence and do not panic; when read_dir fails otherwise,
\* or yields an entry as an error, they panic.
C5_MissingDirectory ==
  /\ (last.op \in {"list_all_objects", "load_all_objects"} /\ dirState = "missing")
       => /\ pc = "idle"
          /\ last.panic = "none"
          /\ last.res = Ok(<<>>)
  /\ (last.op \in {"list_all_objects", "load_all_objects"} /\ dirState = "notdir")
       => /\ pc = "panicked"
          /\ last.panic = "read_dir"
  /\ last.panic \in {"read_dir", "entry.unwrap"} => pc = "panicked"

\* load_all_objects returned the empty collection for a missing directory.
C5_Witness ==
  /\ LastReturned("load_all_objects")
  /\ dirState = "missing"
  /\ last.res.val = <<>>

\* C9: load_all_objects completes an iteration only on hidden entries and on
\* entries ending with .json or .bin: on reaching any other entry it panics,
\* with "Don't know what" when the name is valid Unicode, whatever the tree
\* holds by then; so it returns no collection from a directory that holds
\* such an entry.
C9_UnknownSuffixIsFatal ==
  /\ \A e \in ld.visited : Dotted(e) \/ Recognized(e)
  /\ LastReturned("load_all_objects")
       => \A e \in Entries : Dotted(e) \/ Recognized(e)
  /\ last.panic = "Don't know what"
       => /\ pc = "panicked"
          /\ last.op = "load_all_objects"
          /\ ~Dotted(last.path)
          /\ ~Recognized(last.path)

\* load_all_objects reached a .txt entry and panicked after it had decoded an
\* entry into the tree.
C9_Witness ==
  /\ pc = "panicked"
  /\ last.op = "load_all_objects"
  /\ last.panic = "Don't know what"
  /\ last.path = NameTxt
  /\ DOMAIN ld.tree # {}

\* Two entries of the last load that share a stem, both non-hidden and both
\* decoding, the second enumerated after the first.
Collide(e1, e2) ==
  /\ {e1, e2} \subseteq ld.visited \cap DOMAIN fs
  /\ e1 # e2
  /\ ~Dotted(e1) /\ ~Dotted(e2)
  /\ FileStem(e1) = FileStem(e2)
  /\ Decoded(e1).ok /\ Decoded(e2).ok
  /\ ld.latest[FileStem(e2)] = e2

\* C12: when two non-hidden entries share a stem and both decode,
\* load_all_objects returns exactly one pair for the stem, with the value of
\* the entry enumerated later, and prints no "Couldn't load" line for either.
C12_LaterEntryWins ==
  LastReturned("load_all_objects")
    => \A e1, e2 \in ld.visited :
         Collide(e1, e2)
           => /\ Cardinality({i \in 1..Len(last.res.val) :
                                last.res.val[i][1] = FileStem(e2)}) = 1
              /\ \A i \in 1..Len(last.res.val) :
                   last.res.val[i][1] = FileStem(e2)
                     => last.res.val[i][2] = Decoded(e2).val
              /\ e1 \notin ld.logged /\ e2 \notin ld.logged
              /\ last.out = <<>>

\* a.bin holding one value was read before a.json holding another, and the
\* load returned the value of a.json under the one key.
C12_Witness ==
  /\ LastReturned("load_all_objects")
  /\ Collide(NameABin, NameAJson)
  /\ Decoded(NameABin).val # Decoded(NameAJson).val
  /\ \E i \in 1..Len(last.res.val) :
       last.res.val[i] = <<FileStem(NameAJson), Decoded(NameAJson).val>>

\* A step that is load_all_objects' iteration over the entry e, read_dir
\* having yielded it without an error.
Visits(e) ==
  /\ pc = "loading"
  /\ e \in ld.pending
  /\ fs' = fs
  /\ \/ ld'.visited = ld.visited \cup {e}
     \/ pc' = "panicked" /\ last'.path = e /\ last'.panic # "entry.unwrap"

\* An entry the loop opens: not hidden, its stem valid Unicode, its suffix
\* .json or .bin.
Opens(e) == ~Dotted(e) /\ IsValidUnicode(FileStem(e)) /\ Recognized(e)

\* The load goes on after the entry e, or returns the tree if e was the last.
GoesOn(e) ==
  /\ pc' # "panicked"
  /\ ld'.pending = ld.pending \ {e}
  /\ ld.pending = {e}
       => (pc' = "idle" /\ last' = LoadReturn(ld'.tree))
  /\ ld.pending # {e} => pc' = "loading"

\* C13: a file that another process deletes while load_all_objects runs,
\* after read_dir listed it and before the loop opens it, is an entry that
\* fails to load: "Couldn't load" is printed for it, the tree is left as it
\* was and the load goes on; and every other entry is loaded as it is in a
\* load without a deletion: its decoded value is put under its stem, or its
\* failure is printed and the tree left alone.
C13_DeletionIsPerEntry ==
  [][\A e \in StoreNames :
       (Visits(e) /\ Opens(e) /\ ~(Entries \subseteq DOMAIN fs))
         => IF e \notin DOMAIN fs
            THEN /\ GoesOn(e)
                 /\ ld'.logged = ld.logged \cup {e}
                 /\ ld'.tree = ld.tree
            ELSE /\ GoesOn(e)
                 /\ IF Decoded(e).ok
                    THEN /\ ld'.logged = ld.logged
                         /\ ld'.tree = MapInsert(ld.tree, FileStem(e), Decoded(e).val)
                    ELSE /\ ld'.logged = ld.logged \cup {e}
                         /\ ld'.tree = ld.tree]_vars

\* a.json was read, a.bin was deleted before the loop came to it, and the
\* load returned the value of a.json alone, a.bin having been logged.
C13_Witness ==
  /\ LastReturned("load_all_objects")
  /\ ld.visited = {NameAJson, NameABin}
  /\ ld.latest[FileStem(NameABin)] = NameABin
  /\ NameABin \notin DOMAIN fs
  /\ ld.logged = {NameABin}
  /\ NameAJson \in DOMAIN fs
  /\ last.res.val = <<<<FileStem(NameAJson), Decoded(NameAJson).val>>>>

====
